---- MODULE Spec2Model ----
(***************************************************************************)
(* Polarized Jumping Vigenere Cipher (pjvc.py): the key format, the byte   *)
(* transform and its inverse, and the chunked file envelope.               *)
(*                                                                         *)
(* Five specifications share this module:                                  *)
(*   SpecKey      generate_key, convert_key or a caller-supplied buffer,   *)
(*                then decode_key                                          *)
(*   SpecSchedule jump_interval on its own                                 *)
(*   SpecCipher   encrypt and decrypt, one inner-loop iteration per step   *)
(*   SpecFile     encrypt_file and decrypt_file over an in-memory file     *)
(*   SpecFileFair encrypt_file with fair draws of the separator token      *)
(* Byte strings are sequences over 0..255; every arithmetic step keeps the *)
(* width the code has (mod 256 on data bytes, 2- and 3-byte big-endian     *)
(* fields in the key).                                                     *)
(***************************************************************************)
EXTENDS Integers, Sequences, FiniteSets, TLC

(***************************************************************************)
(* Bounds of the model.                                                    *)
(***************************************************************************)
\* Largest "small" key block length enumerated (besides the edge lengths).
MaxKeyLen == 5
\* Largest block length of a caller-supplied (possibly malformed) buffer.
MaxBufBlock == 6
\* Longest data enumerated byte by byte.
MaxDataLen == 3
\* Length of the one long message (long enough for a jump interval above 2).
LongLen == 48
\* Longest separator token the selection loop is followed to.
MaxSepSize == 4
\* Longest separator token drawn at its own length by the selection loop
\* that is allowed to run for ever.
MaxFairSepSize == 3
\* Longest passphrase enumerated character by character.
MaxPassLen == 4
\* Largest data_length // 16 passed to jump_interval on its own.
MaxSixteenths == 51

(***************************************************************************)
(* Program constants.                                                      *)
(***************************************************************************)
\* generate_key: "Key must be at least 4 bytes long"
MinKeySize == 4
\* generate_key: "Key can be at most 65535 bytes"
MaxKeySize == 65535
\* generate_key / decode_key: header byte, always 0xff
HeaderByte == 255
\* generate_key / decode_key: finalizer byte, always 0x00
FinalizerByte == 0
\* decode_key: minimum size for the structure
MinStructure == 8
\* the "no override" sentinel of generate_key's optional arguments
NoOverride == -1
\* encrypt_file: infile.read(1024)
ChunkSize == 1024
\* encrypt_file / decrypt_file: the line terminator b"\n"
Newline == 10
\* encrypt_file: sep_size = 2 before the first `sep_size += 1`
InitialSepSize == 2

(***************************************************************************)
(* Byte-string helpers (Python semantics).                                 *)
(***************************************************************************)
Min(a, b) == IF a < b THEN a ELSE b
Max(a, b) == IF a > b THEN a ELSE b

RECURSIVE Pow256(_)
Pow256(w) == IF w = 0 THEN 1 ELSE 256 * Pow256(w - 1)

\* int.to_bytes(width, "big") raises OverflowError outside [0, 256^width).
FitsBytes(n, width) == n >= 0 /\ n < Pow256(width)

\* int.to_bytes(width, byteorder="big"), for a value that fits.
ToBytes(n, width) == [i \in 1..width |-> (n \div Pow256(width - i)) % 256]

\* int.from_bytes(s, byteorder="big")
RECURSIVE FromBytes(_)
FromBytes(s) ==
    IF Len(s) = 0 THEN 0
    ELSE 256 * FromBytes(SubSeq(s, 1, Len(s) - 1)) + s[Len(s)]

\* s[a:b] for 0 <= a, with b clamped to len(s) (b < 0 counts from the end).
Slice(s, a, b) ==
    LET hi == IF b < 0 THEN Max(Len(s) + b, 0) ELSE Min(b, Len(s))
    IN  IF a >= hi THEN <<>> ELSE SubSeq(s, a + 1, hi)

\* str.encode("utf-8") of one code point (no surrogates among the inputs).
Utf8Char(cp) ==
    IF cp < 128 THEN <<cp>>
    ELSE IF cp < 2048 THEN <<192 + (cp \div 64), 128 + (cp % 64)>>
    ELSE IF cp < 65536
         THEN <<224 + (cp \div 4096), 128 + ((cp \div 64) % 64), 128 + (cp % 64)>>
    ELSE <<240 + (cp \div 262144), 128 + ((cp \div 4096) % 64),
           128 + ((cp \div 64) % 64), 128 + (cp % 64)>>

\* str.encode("utf-8"): the encodings of the code points in order (the string
\* is halved rather than walked, which keeps the evaluation shallow).
RECURSIVE EncodeUtf8(_)
EncodeUtf8(str) ==
    IF Len(str) = 0 THEN <<>>
    ELSE IF Len(str) = 1 THEN Utf8Char(str[1])
    ELSE LET half == Len(str) \div 2
         IN  EncodeUtf8(SubSeq(str, 1, half))
             \o EncodeUtf8(SubSeq(str, half + 1, Len(str)))

(***************************************************************************)
(* Key Model.                                                              *)
(***************************************************************************)
Raise(kind, at) == [ok |-> FALSE, err |-> kind, at |-> at]

\* urandom(n): the draws the model enumerates, n bytes each.
Urandom(n) ==
    { [i \in 1..n |-> (a + (i - 1) * s) % 256] : a \in {0, 10, 201}, s \in {0, 77} }

\* How many random bytes generate_key draws: the block plus the 4 jump bytes.
DrawLenNoJumpFields(key_len) == key_len
DrawLen(key_len) == key_len + 4

\* generate_key with the frequency override written one byte too far
\* (key[4] instead of key[3]).
generate_key_fq_byte_shifted(key_len, override_jumpfq, override_jumplen, rnd) ==
    IF key_len < MinKeySize THEN Raise("ValueError", "validation")
    ELSE IF key_len > MaxKeySize THEN Raise("ValueError", "validation")
    ELSE IF override_jumpfq # NoOverride
            /\ (override_jumpfq < 1 \/ override_jumpfq > 255)
         THEN Raise("ValueError", "validation")
    ELSE
      LET key0 == <<HeaderByte>> \o ToBytes(key_len, 2) \o rnd \o <<FinalizerByte>>
          key1 == IF override_jumpfq # NoOverride
                  THEN [key0 EXCEPT ![5] = override_jumpfq]
                  ELSE key0
      IN  IF override_jumplen # NoOverride
          THEN IF ~FitsBytes(override_jumplen, 3)
               THEN Raise("OverflowError", "assembly")
               ELSE [ok |-> TRUE,
                     key |-> Slice(key1, 0, 4) \o ToBytes(override_jumplen, 3)
                             \o Slice(key1, 7, Len(key1))]
          ELSE [ok |-> TRUE, key |-> key1]

\* generate_key, lines 25-51, with the urandom draw passed in as rnd.
\* (isinstance checks: the model passes integers only.)
generate_key(key_len, override_jumpfq, override_jumplen, rnd) ==
    IF key_len < MinKeySize THEN Raise("ValueError", "validation")
    ELSE IF key_len > MaxKeySize THEN Raise("ValueError", "validation")
    ELSE IF override_jumpfq # NoOverride
            /\ (override_jumpfq < 1 \/ override_jumpfq > 255)
         THEN Raise("ValueError", "validation")
    ELSE IF override_jumpfq # NoOverride /\ override_jumpfq < 1
         THEN Raise("ValueError", "validation")
    ELSE
      LET key0 == <<HeaderByte>> \o ToBytes(key_len, 2) \o rnd \o <<FinalizerByte>>
          key1 == IF override_jumpfq # NoOverride
                  THEN [key0 EXCEPT ![4] = override_jumpfq]
                  ELSE key0
      IN  IF override_jumplen # NoOverride
          THEN IF ~FitsBytes(override_jumplen, 3)
               THEN Raise("OverflowError", "assembly")
               ELSE [ok |-> TRUE,
                     key |-> Slice(key1, 0, 4) \o ToBytes(override_jumplen, 3)
                             \o Slice(key1, 7, Len(key1))]
          ELSE [ok |-> TRUE, key |-> key1]

\* decode_key, lines 60-88 (the argument is a bytes object).
decode_key_no_finalizer(key) ==
    IF Len(key) < MinStructure THEN Raise("ValueError", "too short")
    ELSE IF key[1] # HeaderByte THEN Raise("ValueError", "header")
    ELSE
      LET key_len == FromBytes(Slice(key, 1, 3))
      IN  IF Len(key) # 8 + key_len THEN Raise("ValueError", "length")
          ELSE [ok |-> TRUE,
                length |-> key_len,
                jump_frequency |-> key[4],
                jump_length |-> FromBytes(Slice(key, 4, 7)),
                block |-> Slice(key, 7, -1)]
decode_key(key) ==
    IF Len(key) < MinStructure THEN Raise("ValueError", "too short")
    ELSE IF key[1] # HeaderByte THEN Raise("ValueError", "header")
    ELSE IF key[Len(key)] # 0 THEN Raise("ValueError", "finalizer")
    ELSE
      LET key_len == FromBytes(Slice(key, 1, 3))
      IN  IF Len(key) # 8 + key_len THEN Raise("ValueError", "length")
          ELSE [ok |-> TRUE,
                length |-> key_len,
                jump_frequency |-> key[4],
                jump_length |-> FromBytes(Slice(key, 4, 7)),
                block |-> Slice(key, 7, -1)]

\* convert_key with the jump length taken from the first three bytes
\* (key_block[0:3] instead of key_block[1:4]).
convert_key_jump_length_from_start(input_str) ==
    LET key_block == EncodeUtf8(input_str)
        key_len   == Len(key_block)
    IN  IF key_len < MinKeySize THEN Raise("ValueError", "validation")
        ELSE IF key_len > MaxKeySize THEN Raise("ValueError", "validation")
        ELSE [ok |-> TRUE,
              key |-> <<HeaderByte>> \o ToBytes(key_len, 2) \o <<key_block[1]>>
                      \o Slice(key_block, 0, 3) \o key_block \o <<FinalizerByte>>]

\* convert_key, lines 125-152 (the argument is a str).
convert_key(input_str) ==
    LET key_block == EncodeUtf8(input_str)
        key_len   == Len(key_block)
    IN  IF key_len < MinKeySize THEN Raise("ValueError", "validation")
        ELSE IF key_len > MaxKeySize THEN Raise("ValueError", "validation")
        ELSE [ok |-> TRUE,
              key |-> <<HeaderByte>> \o ToBytes(key_len, 2) \o <<key_block[1]>>
                      \o Slice(key_block, 1, 4) \o key_block \o <<FinalizerByte>>]

(***************************************************************************)
(* Jump Schedule and Cipher Engine: the pure parts.                        *)
(***************************************************************************)
\* The ten outer passes, `for _ in range(10)`.
Rounds == 10

\* Lines 172-179 / 221-228: the bytearray the function works on.
ToByteArray(a) == IF a.type = "str" THEN EncodeUtf8(a.val) ELSE a.val

RECURSIVE Pow2(_)
Pow2(e) == IF e = 0 THEN 1 ELSE 2 * Pow2(e - 1)

\* int.bit_length() of n >= 0.
RECURSIVE BitLen(_)
BitLen(n) == IF n = 0 THEN 0 ELSE 1 + BitLen(n \div 2)

\* The binary exponent of frequency / 255 for 0 < f < 255: the least j >= 1
\* with f * 2^j >= 255 (the double's 53-bit significand is f * 2^(52+j) / 255
\* rounded to nearest).
RECURSIVE FracShift(_, _)
FracShift(f, j) == IF f * Pow2(j) >= 255 THEN j ELSE FracShift(f, j + 1)

\* Whether the double product (f / 255) * q lies below the integer n it
\* equals in exact arithmetic (255 divides f * q, n = f * q / 255).  With
\* s = 52 + j the significand M of f / 255 misses f * 2^s / 255 by rem / 255,
\* rem = f * 2^s mod 255 = f * 2^(s mod 8) mod 255.  When the division
\* rounded down (2 * rem < 255) the exact product M * q is d = q * rem / 255
\* below n * 2^s, and rounding it to 53 bits gives less than n * 2^s exactly
\* when d exceeds half the spacing u of the doubles just below n * 2^s.
ProductFallsShort(f, q, n) ==
    LET j   == FracShift(f, 1)
        rem == (f * Pow2((52 + j) % 8)) % 255
        d   == (q * rem) \div 255
        u   == IF n = Pow2(BitLen(n) - 1)
               THEN Pow2(j + BitLen(n) - 2)
               ELSE Pow2(j + BitLen(n) - 1)
    IN  2 * rem < 255 /\ 2 * d > u

\* jump_interval, line 162: int(max((frequency / 255) * (length // 16), 2)),
\* in IEEE double arithmetic as Python computes it.  The product can miss
\* the exact quotient only when that quotient is an integer n; below 3 the
\* max hides it.
jump_interval(length, frequency) ==
    LET q == length \div 16
        n == (frequency * q) \div 255
    IN  IF frequency = 0 \/ frequency = 255 \/ (frequency * q) % 255 # 0 \/ n < 3
        THEN Max(n, 2)
        ELSE IF ProductFallsShort(frequency, q, n) THEN n - 1 ELSE n

\* The jump distance without the key length added to the quotient.
jump_distance_without_base(jump_length, length) == jump_length \div length

\* Lines 186-188: jump_len, for key.length > 0.
jump_distance(jump_length, length) == (jump_length \div length) + length

\* Lines 197-204: one byte of encrypt.
EncryptByte(kv, k, pol) ==
    IF pol
    THEN IF kv - k < 0 THEN kv - k + 256 ELSE kv - k
    ELSE IF kv + k > 255 THEN kv + k - 256 ELSE kv + k

\* Lines 246-253: one byte of decrypt (the polarity test is inverted).
DecryptByteSameTest(kv, k, pol) ==
    IF pol
    THEN IF kv - k < 0 THEN kv - k + 256 ELSE kv - k
    ELSE IF kv + k > 255 THEN kv + k - 256 ELSE kv + k
DecryptByte(kv, k, pol) ==
    IF ~pol
    THEN IF kv - k < 0 THEN kv - k + 256 ELSE kv - k
    ELSE IF kv + k > 255 THEN kv + k - 256 ELSE kv + k

ByteOp(dir, kv, k, pol) ==
    IF dir = "encrypt" THEN EncryptByte(kv, k, pol) ELSE DecryptByte(kv, k, pol)

\* The bookkeeping of one byte without the wrap of lines 212-213.
AdvanceWithoutWrap(till, cur, pol, jc, jl, length) ==
    LET till1 == till - 1
        cur1  == cur + 1
        jump  == till1 = 0
    IN  [till_next_jump    |-> IF jump THEN jc ELSE till1,
         current_key_value |-> IF jump THEN cur1 + jl ELSE cur1,
         polarity          |-> IF jump THEN ~pol ELSE pol]

\* Lines 206-213 / 255-262: countdown, cursor and polarity after one byte.
Advance(till, cur, pol, jc, jl, length) ==
    LET till1 == till - 1
        cur1  == cur + 1
        jump  == till1 = 0
        cur2  == IF jump THEN cur1 + jl ELSE cur1
    IN  [till_next_jump    |-> IF jump THEN jc ELSE till1,
         current_key_value |-> IF cur2 >= length THEN cur2 % length ELSE cur2,
         polarity          |-> IF jump THEN ~pol ELSE pol]

\* One iteration of the inner loop body on the cipher state cs, byte index ix.
StepState(cs, ix, dir, k, jc, jl) ==
    LET kv  == ByteOp(dir, cs.data[ix + 1], k.block[cs.current_key_value + 1],
                      cs.polarity)
        adv == Advance(cs.till_next_jump, cs.current_key_value, cs.polarity,
                       jc, jl, k.length)
    IN  [data |-> [cs.data EXCEPT ![ix + 1] = kv],
         till_next_jump |-> adv.till_next_jump,
         current_key_value |-> adv.current_key_value,
         polarity |-> adv.polarity]

\* The loops of lines 194-213, byte steps t0+1 .. t1 (t0 < t1) applied to r,
\* the outcome of the first t0 steps; n = len(data) > 0.  The span is halved
\* rather than walked, which keeps the evaluation shallow.
RECURSIVE RunSpan(_, _, _, _, _, _, _, _)
RunSpan(r, t0, t1, n, dir, k, jc, jl) ==
    IF ~r.ok THEN r
    ELSE IF t1 = t0 + 1
         THEN IF r.cs.current_key_value >= Len(k.block)
              THEN Raise("IndexError", "loop")
              ELSE [ok |-> TRUE, cs |-> StepState(r.cs, t0 % n, dir, k, jc, jl)]
    ELSE LET mid == (t0 + t1) \div 2
         IN  RunSpan(RunSpan(r, t0, mid, n, dir, k, jc, jl),
                     mid, t1, n, dir, k, jc, jl)

\* encrypt / decrypt as a whole call on a bytes object (used by the file codec).
Transform(bytes, rawkey, dir) ==
    LET k == decode_key(rawkey)
    IN  IF ~k.ok THEN k
        ELSE IF k.length = 0 THEN Raise("ZeroDivisionError", "jump_len")
        ELSE IF Len(bytes) = 0 THEN [ok |-> TRUE, out |-> bytes]
        ELSE LET jc  == jump_interval(Len(bytes), k.jump_frequency)
                 end == RunSpan([ok |-> TRUE,
                                 cs |-> [data |-> bytes, till_next_jump |-> jc,
                                         current_key_value |-> 0,
                                         polarity |-> FALSE]],
                                0, Rounds * Len(bytes), Len(bytes), dir, k, jc,
                                jump_distance(k.jump_length, k.length))
             IN  IF end.ok THEN [ok |-> TRUE, out |-> end.cs.data] ELSE end

(***************************************************************************)
(* Chunked File Codec: the pure parts.                                     *)
(***************************************************************************)
\* Whether `old` occurs in s at (1-based) position p.
MatchAt(s, old, p) ==
    p + Len(old) - 1 <= Len(s) /\ SubSeq(s, p, p + Len(old) - 1) = old

\* The first position in lo..hi where `old` occurs in s, 0 when there is none
\* (found by halving the range).
RECURSIVE FirstMatch(_, _, _, _)
FirstMatch(s, old, lo, hi) ==
    IF lo > hi THEN 0
    ELSE IF lo = hi THEN (IF MatchAt(s, old, lo) THEN lo ELSE 0)
    ELSE LET mid  == (lo + hi) \div 2
             left == FirstMatch(s, old, lo, mid)
         IN  IF left # 0 THEN left ELSE FirstMatch(s, old, mid + 1, hi)

\* `old in s[lo:hi]` for bytes objects (0 <= lo <= hi <= len(s)), without
\* building the slice.
ContainsIn(s, old, lo, hi) ==
    Len(old) = 0 \/ \E p \in (lo + 1)..(hi - Len(old) + 1) : MatchAt(s, old, p)

\* `old in s` for bytes objects.
Contains(s, old) == ContainsIn(s, old, 0, Len(s))

\* s[from..].replace(old, new) for a non-empty `old`: the occurrences are
\* taken left to right and do not overlap.
RECURSIVE ReplaceFrom(_, _, _, _)
ReplaceFrom(s, old, new, from) ==
    LET m == FirstMatch(s, old, from, Len(s) - Len(old) + 1)
    IN  IF m = 0 THEN SubSeq(s, from, Len(s))
        ELSE SubSeq(s, from, m - 1) \o new
             \o ReplaceFrom(s, old, new, m + Len(old))

\* bytes.replace(old, new); an empty `old` matches before every byte and at
\* the end.
Replace(s, old, new) ==
    IF Len(old) = 0
    THEN LET per == Len(new) + 1
         IN  [x \in 1..(Len(s) * per + Len(new)) |->
                IF (x - 1) % per < Len(new)
                THEN new[((x - 1) % per) + 1]
                ELSE s[((x - 1) \div per) + 1]]
    ELSE ReplaceFrom(s, old, new, 1)

\* file.read(1024) at position pos (0-based): the chunk, empty at the end.
ReadChunk(file, pos) == Slice(file, pos, pos + ChunkSize)

\* file.readline() at position pos: up to and including the next b"\n", or
\* to the end of the file.
ReadLine(file, pos) ==
    LET nl == FirstMatch(file, <<Newline>>, pos + 1, Len(file))
    IN  IF nl = 0 THEN Slice(file, pos, Len(file)) ELSE SubSeq(file, pos + 1, nl)

\* Lines 281-284 from position pos: read chunk after chunk until one holds
\* the separator (good = False; break) or the file ends.  The chunk read at
\* pos is file[pos:end].
RECURSIVE ScanForSeparator(_, _, _)
ScanForSeparator(file, pos, sep) ==
    LET end == Min(pos + ChunkSize, Len(file))
    IN  IF end <= pos THEN [good |-> TRUE, pos |-> pos]
        ELSE IF ContainsIn(file, sep, pos, end)
             THEN [good |-> FALSE, pos |-> end]
        ELSE ScanForSeparator(file, end, sep)

(***************************************************************************)
(* State.                                                                  *)
(***************************************************************************)
VARIABLES
    \* ---- Key Model (SpecKey)
    kpc,        \* "idle", "have_key", "raised", "decoded" ("parked" elsewhere)
    gen,        \* the last generate_key call: arguments, draw and result
    conv,       \* the last convert_key call: passphrase and results
    keybuf,     \* the key bytes held by the caller
    decoded,    \* what decode_key returned (or raised) on keybuf
    \* ---- Cipher Engine (SpecCipher): one encrypt / decrypt call at a time
    cpc,        \* "idle", "loop", "returned", "raised" ("parked" elsewhere)
    op,         \* "none", "encrypt", "decrypt": the function being run
    arg,        \* the caller's data object as it is now: [type, val]
    orig,       \* the value the caller's object had when the call was made
    plain,      \* the bytes handed to encrypt (kept for the round trip)
    chained,    \* TRUE when decrypt runs on the result of encrypt
    keyraw,     \* the key bytes passed to encrypt / decrypt
    key,        \* the local `key` after decode_key (line 182 / 231)
    data,       \* the local bytearray `data`
    jump_chars, \* every how many characters we jump
    jump_len,   \* how long the jump will be
    till_next_jump,
    current_key_value,
    polarity,
    round,      \* the outer loop variable `_` (0..10)
    i,          \* the inner loop variable
    nsteps,     \* byte steps done in this call
    result,     \* the value returned
    error,      \* the exception raised, "none" if none
    \* ---- Chunked File Codec (SpecFile): encrypt_file / decrypt_file
    fpc,        \* "idle", "select", "chunks", "encrypted", "sepline", "lines",
                \* "decrypted", "raised" ("parked" elsewhere)
    plainfile,  \* the contents of the file the caller started from
    roundtrip,  \* TRUE when decrypt_file runs on encrypt_file's output
    fkey,       \* the key bytes passed to encrypt_file / decrypt_file
    infile,     \* contents of the input file of the running function
    inpos,      \* read position of infile
    outfile,    \* contents of the output file of the running function
    seperator,  \* the local `seperator` (<<>> stands for None)
    retry,      \* the local `retry` of encrypt_file
    sep_size,   \* the local `sep_size` of encrypt_file
    ferror,     \* the exception that ended the call, "none" if none
    \* ---- Jump Schedule (SpecSchedule): one jump_interval call
    jcall       \* its arguments and, once called, its result

keyvars == <<kpc, gen, conv, keybuf, decoded>>
cipherlocals == <<key, data, jump_chars, jump_len, till_next_jump,
                  current_key_value, polarity, round, i, nsteps>>
ciphervars == <<cpc, op, arg, orig, plain, chained, keyraw, cipherlocals,
                result, error>>
filevars == <<fpc, plainfile, roundtrip, fkey, infile, inpos, outfile,
              seperator, retry, sep_size, ferror>>
schedvars == <<jcall>>
vars == <<keyvars, ciphervars, filevars, schedvars>>

NoCall == [called |-> FALSE]
NoResult == [ok |-> FALSE, err |-> "none", at |-> "none"]

NoKey == [ok |-> FALSE, err |-> "none", at |-> "none"]
NoArg == [type |-> "bytes", val |-> <<>>]

\* The locals of a call that is not in its loop.
LocalsIdle ==
    /\ key = NoKey
    /\ data = <<>>
    /\ jump_chars = 0
    /\ jump_len = 0
    /\ till_next_jump = 0
    /\ current_key_value = 0
    /\ polarity = FALSE
    /\ round = 0
    /\ i = 0
    /\ nsteps = 0

CipherParked ==
    /\ cpc = "parked"
    /\ op = "none"
    /\ arg = NoArg
    /\ orig = NoArg
    /\ plain = <<>>
    /\ chained = FALSE
    /\ keyraw = <<>>
    /\ LocalsIdle
    /\ result = <<>>
    /\ error = "none"

FileParked ==
    /\ fpc = "parked"
    /\ plainfile = <<>>
    /\ roundtrip = FALSE
    /\ fkey = <<>>
    /\ infile = <<>>
    /\ inpos = 0
    /\ outfile = <<>>
    /\ seperator = <<>>
    /\ retry = FALSE
    /\ sep_size = 0
    /\ ferror = "none"

SchedParked == jcall = NoCall

KeyParked ==
    /\ kpc = "parked"
    /\ gen = NoCall
    /\ conv = NoCall
    /\ keybuf = <<>>
    /\ decoded = NoResult

KeyInit ==
    /\ kpc = "idle"
    /\ gen = NoCall
    /\ conv = NoCall
    /\ keybuf = <<>>
    /\ decoded = NoResult
    /\ CipherParked
    /\ FileParked
    /\ SchedParked

\* key_len arguments tried: around the lower limit, small lengths, a length
\* that needs both size bytes, and around the upper limit.
GenKeyLens ==
    {0, 3} \cup (MinKeySize..MaxKeyLen) \cup {260, MaxKeySize, MaxKeySize + 1}
GenJumpFq == {NoOverride, -2, 0, 1, 200, 255, 256}
GenJumpLen == {NoOverride, -2, 0, 1, 65536 + 515, 16777215, 16777216}

GenerateKey ==
    /\ kpc = "idle"
    /\ \E key_len \in GenKeyLens, jf \in GenJumpFq, jl \in GenJumpLen :
         \E rnd \in Urandom(IF key_len \in MinKeySize..MaxKeySize
                            THEN DrawLen(key_len) ELSE 0) :
           LET res == generate_key(key_len, jf, jl, rnd)
           IN  /\ gen' = [called |-> TRUE, key_len |-> key_len,
                          override_jumpfq |-> jf, override_jumplen |-> jl,
                          rnd |-> rnd, res |-> res]
               /\ keybuf' = IF res.ok THEN res.key ELSE <<>>
               /\ kpc' = IF res.ok THEN "have_key" ELSE "raised"
    /\ UNCHANGED <<conv, decoded, ciphervars, filevars, schedvars>>

\* The passphrases tried: every string of up to MaxPassLen characters over
\* "A" (1 byte), "e-acute" (2 bytes) and the euro sign (3 bytes), and strings
\* whose encoding is at and just over the largest key size.
PassChars == {65, 233, 8364}
LongPassphrases ==
    { [j \in 1..MaxKeySize |-> 97], [j \in 1..(MaxKeySize + 1) |-> 97],
      [j \in 1..((MaxKeySize + 1) \div 2) |-> 233] }
Passphrases ==
    UNION { [1..n -> PassChars] : n \in 0..MaxPassLen } \cup LongPassphrases

\* convert_key(input_str) is called.
ConvertKey ==
    /\ kpc = "idle"
    /\ \E input_str \in Passphrases :
         LET res == convert_key(input_str)
         IN  /\ conv' = [called |-> TRUE, input_str |-> input_str, res |-> res,
                         twice |-> FALSE, res2 |-> NoResult]
             /\ keybuf' = IF res.ok THEN res.key ELSE <<>>
             /\ kpc' = IF res.ok THEN "have_key" ELSE "raised"
    /\ UNCHANGED <<gen, decoded, ciphervars, filevars, schedvars>>

\* convert_key is called a second time with the same passphrase.
ConvertKeyAgain ==
    /\ conv.called
    /\ ~conv.twice
    /\ conv' = [conv EXCEPT !.twice = TRUE, !.res2 = convert_key(conv.input_str)]
    /\ UNCHANGED <<kpc, gen, keybuf, decoded, ciphervars, filevars, schedvars>>

\* Buffers a caller can hand to decode_key (load_keyfile reads any file):
\* the layout with each part right or wrong, and every prefix of it.
BufBlocks ==
    { [j \in 1..n |-> (a + (j - 1) * 77) % 256] :
        n \in (0..MaxBufBlock) \cup {256}, a \in {0, 10} }
LayoutBuffers ==
    { <<h>> \o ToBytes(declared, 2) \o <<jf>> \o ToBytes(jl, 3) \o blk \o <<fin>> :
        h \in {HeaderByte, 254, 0},
        declared \in (0..MaxBufBlock) \cup {256, 257},
        jf \in {0, 200},
        jl \in {0, 66051},
        blk \in BufBlocks,
        fin \in {FinalizerByte, 1, 255} }
ShortBuffers ==
    UNION { [1..n -> {0, 255}] : n \in 0..4 }
KeyBuffers == LayoutBuffers \cup ShortBuffers

LoadKey ==
    /\ kpc = "idle"
    /\ \E buf \in KeyBuffers : keybuf' = buf
    /\ kpc' = "have_key"
    /\ UNCHANGED <<gen, conv, decoded, ciphervars, filevars, schedvars>>

DecodeKey ==
    /\ kpc = "have_key"
    /\ decoded' = decode_key(keybuf)
    /\ kpc' = "decoded"
    /\ UNCHANGED <<gen, conv, keybuf, ciphervars, filevars, schedvars>>

KeyNext == GenerateKey \/ ConvertKey \/ ConvertKeyAgain \/ LoadKey \/ DecodeKey

SpecKey == KeyInit /\ [][KeyNext]_vars

(***************************************************************************)
(* Key Model: properties checked under SpecKey.                            *)
(***************************************************************************)
\* The three layout conditions of the key format, read off the raw buffer.
WellFormedKey(buf) ==
    /\ Len(buf) >= 3
    /\ buf[1] = 255
    /\ buf[Len(buf)] = 0
    /\ Len(buf) = 8 + 256 * buf[2] + buf[3]

\* C4: decode_key fails, with a ValueError, on every buffer whose first byte
\* is not 0xFF, whose last byte is not 0x00 or whose length is not 8 + the
\* declared key_len, and succeeds only when all three conditions are met.
C4_DecodeRejectsMalformed ==
    kpc = "decoded" =>
        /\ decoded.ok <=> WellFormedKey(keybuf)
        /\ ~decoded.ok => decoded.err = "ValueError"

\* C4 witness: a buffer with the right header and finalizer, long enough for
\* the structure, was rejected for its length alone.
C4_Witness ==
    /\ kpc = "decoded"
    /\ ~decoded.ok
    /\ Len(keybuf) >= 8
    /\ keybuf[1] = 255
    /\ keybuf[Len(keybuf)] = 0

\* C5: every DecodedKey that decode_key returns has 4 <= length <= 65535 and
\* a block of exactly `length` bytes (a declared key_len below 4 is a decode
\* failure).
C5_DecodedLengthInRange ==
    (kpc = "decoded" /\ decoded.ok) =>
        /\ decoded.length >= 4
        /\ decoded.length <= 65535
        /\ Len(decoded.block) = decoded.length

\* C9: generate_key fails with ValueError, in the argument validation, for
\* every negative override jump_length other than the sentinel -1.
C9_NegativeJumpLenIsInvalidArgument ==
    (gen.called /\ gen.override_jumplen < 0 /\ gen.override_jumplen # -1) =>
        /\ ~gen.res.ok
        /\ gen.res.err = "ValueError"
        /\ gen.res.at = "validation"

\* C10: for key_len in [4, 65535] and accepted overrides generate_key returns
\* a key of total length 8 + key_len with header 0xFF and finalizer 0x00, and
\* decode_key accepts it with length = key_len and a block of key_len bytes.
C10_GeneratedKeyDecodes ==
    /\ ( /\ gen.called
         /\ gen.key_len >= 4 /\ gen.key_len <= 65535
         /\ (gen.override_jumpfq = -1
               \/ (gen.override_jumpfq >= 1 /\ gen.override_jumpfq <= 255))
         /\ (gen.override_jumplen = -1
               \/ (gen.override_jumplen >= 0 /\ gen.override_jumplen <= 16777215)) )
       => gen.res.ok
    /\ (gen.called /\ gen.res.ok) =>
         /\ gen.key_len >= 4 /\ gen.key_len <= 65535
         /\ Len(gen.res.key) = 8 + gen.key_len
         /\ gen.res.key[1] = 255
         /\ gen.res.key[Len(gen.res.key)] = 0
    /\ (gen.called /\ kpc = "decoded") =>
         /\ decoded.ok
         /\ decoded.length = gen.key_len
         /\ Len(decoded.block) = gen.key_len

\* C10 witness: a key whose size needs both size bytes, generated with both
\* overrides, has been decoded.
C10_Witness ==
    /\ gen.called
    /\ kpc = "decoded"
    /\ gen.key_len = 260
    /\ gen.override_jumpfq = 200
    /\ gen.override_jumplen = 0

\* C11: an override replaces exactly its own field.  In the decoded key the
\* overridden jump_frequency (1..255) or jump_length (0..2^24-1) equals the
\* override, and the header, key_len, key block, finalizer and the jump field
\* that was not overridden are the ones assembled from key_len and the random
\* draw before the override was applied.
C11_OverrideReplacesOnlyItsField ==
    (gen.called /\ gen.res.ok /\ kpc = "decoded") =>
        /\ decoded.ok
        /\ keybuf[1] = 255
        /\ keybuf[Len(keybuf)] = 0
        /\ <<keybuf[2], keybuf[3]>> = <<gen.key_len \div 256, gen.key_len % 256>>
        /\ decoded.length = gen.key_len
        /\ decoded.block = SubSeq(gen.rnd, 5, Len(gen.rnd))
        /\ decoded.jump_frequency =
             IF gen.override_jumpfq # -1 THEN gen.override_jumpfq ELSE gen.rnd[1]
        /\ decoded.jump_length =
             IF gen.override_jumplen # -1 THEN gen.override_jumplen
             ELSE 65536 * gen.rnd[2] + 256 * gen.rnd[3] + gen.rnd[4]

\* C11 witness: a key generated with the frequency override 200 alone, over a
\* draw whose bytes all differ from 200 and from each other, has been decoded.
C11_Witness ==
    /\ gen.called
    /\ kpc = "decoded"
    /\ gen.key_len = 4
    /\ gen.override_jumpfq = 200
    /\ gen.override_jumplen = -1
    /\ gen.rnd = <<10, 87, 164, 241, 62, 139, 216, 37>>
    /\ decoded.jump_frequency = 200
    /\ decoded.jump_length = 65536 * 87 + 256 * 164 + 241

\* C13: convert_key is deterministic and well-formed.  A passphrase whose
\* encoding has 4..65535 bytes gives, on both calls, the same key; decode_key
\* accepts it with the whole encoding as block, its first byte as
\* jump_frequency and its 2nd..4th bytes, big-endian, as jump_length.  Any
\* other encoded length fails with ValueError.
C13_ConvertKeyDeterministicWellFormed ==
    conv.called =>
        LET encoded == EncodeUtf8(conv.input_str)
        IN  /\ conv.res.ok <=> (Len(encoded) >= 4 /\ Len(encoded) <= 65535)
            /\ ~conv.res.ok =>
                 (conv.res.err = "ValueError" /\ conv.res.at = "validation")
            /\ conv.twice => conv.res2 = conv.res
            /\ kpc = "decoded" =>
                 /\ decoded.ok
                 /\ decoded.length = Len(encoded)
                 /\ decoded.block = encoded
                 /\ decoded.jump_frequency = encoded[1]
                 /\ decoded.jump_length =
                      65536 * encoded[2] + 256 * encoded[3] + encoded[4]

\* C13 witness: a passphrase of three characters and six bytes was converted
\* twice and the key decoded: frequency 0xC3, jump length 0xA941E2.
C13_Witness ==
    /\ conv.called
    /\ conv.twice
    /\ kpc = "decoded"
    /\ conv.input_str = <<233, 65, 8364>>
    /\ decoded.block = <<195, 169, 65, 226, 130, 172>>
    /\ decoded.jump_frequency = 195
    /\ decoded.jump_length = 11092450

(***************************************************************************)
(* Jump Schedule: one call of jump_interval(length, frequency).            *)
(***************************************************************************)
\* The data lengths tried: the first, a middle and the last length of every
\* sixteenth up to MaxSixteenths.
ScheduleLengths == { 16 * q + r : q \in 0..MaxSixteenths, r \in {0, 7, 15} }
\* jump_frequency is one byte of the key.
ScheduleFrequencies == 0..255

ScheduleInit ==
    /\ KeyParked
    /\ CipherParked
    /\ FileParked
    /\ \E length \in ScheduleLengths, frequency \in ScheduleFrequencies :
         jcall = [called |-> FALSE, length |-> length, frequency |-> frequency,
                  res |-> 0]

CallJumpInterval ==
    /\ ~jcall.called
    /\ jcall' = [jcall EXCEPT !.called = TRUE,
                              !.res = jump_interval(jcall.length, jcall.frequency)]
    /\ UNCHANGED <<keyvars, ciphervars, filevars>>

ScheduleNext == CallJumpInterval

SpecSchedule == ScheduleInit /\ [][ScheduleNext]_vars

(***************************************************************************)
(* Jump Schedule: properties checked under SpecSchedule.                   *)
(***************************************************************************)
\* C12: for every data_length >= 0 and jump_frequency in 0..255 jump_interval
\* returns floor(max((jump_frequency / 255) * floor(data_length / 16), 2)), in
\* exact arithmetic; so the result is >= 2 and <= max(2, floor(data_length /
\* 16)), it is 2 for every data_length < 32, and 10 for length 160 with
\* frequency 255.
C12_JumpIntervalIsExactFloor ==
    jcall.called =>
        LET q == jcall.length \div 16
        IN  /\ jcall.res = (IF jcall.frequency * q >= 2 * 255
                            THEN (jcall.frequency * q) \div 255 ELSE 2)
            /\ jcall.res >= 2
            /\ jcall.res <= (IF q > 2 THEN q ELSE 2)
            /\ jcall.length < 32 => jcall.res = 2
            /\ (jcall.length = 160 /\ jcall.frequency = 255) => jcall.res = 10

(***************************************************************************)
(* Cipher Engine: encrypt and decrypt, one inner-loop iteration per step.  *)
(***************************************************************************)
\* A key in the layout of generate_key's docstring (lines 17-23).
MakeKey(klen, jf, jl, blk) ==
    <<HeaderByte>> \o ToBytes(klen, 2) \o <<jf>> \o ToBytes(jl, 3) \o blk
        \o <<FinalizerByte>>

CipherKeyLens == {0, 1} \cup (MinKeySize..MaxKeyLen)
CipherBlock(n, p) == [j \in 1..n |-> (p[1] + (j - 1) * p[2]) % 256]
\* The key bytes a caller passes: well-formed keys of several sizes and jump
\* fields, and one buffer with a wrong header.
CipherKeys ==
    { MakeKey(n, jf, jl, CipherBlock(n, p)) :
        n \in CipherKeyLens, jf \in {0, 255}, jl \in {0, 7, 16777215},
        p \in {<<1, 0>>, <<200, 77>>} }
    \cup { <<254, 0, 4, 0, 0, 0, 0, 1, 1, 1, 1, 0>> }

LongData == [j \in 1..LongLen |-> (j * 7) % 256]
CipherByteStrings ==
    UNION { [1..n -> {0, 255}] : n \in 0..MaxDataLen } \cup {LongData}
CipherStrings ==
    UNION { [1..n -> {65, 233}] : n \in 1..MaxDataLen }
\* The data objects a caller passes: bytes, bytearray or str.
CipherInputs ==
    { [type |-> t, val |-> v] : t \in {"bytes", "bytearray"}, v \in CipherByteStrings }
    \cup { [type |-> "str", val |-> v] : v \in CipherStrings }

CipherInit ==
    /\ KeyParked
    /\ FileParked
    /\ SchedParked
    /\ cpc = "idle"
    /\ op = "none"
    /\ arg \in CipherInputs
    /\ orig = arg
    /\ plain = <<>>
    /\ chained = FALSE
    /\ keyraw \in CipherKeys
    /\ LocalsIdle
    /\ result = <<>>
    /\ error = "none"

\* The entry of a call that leaves the key cursor and the polarity as the
\* previous call left them (no reset at lines 191-192).
EnterKeepsCursorAndPolarity(a) ==
    LET bytes == ToByteArray(a)
        k     == decode_key(keyraw)
    IN  IF ~k.ok
        THEN /\ cpc' = "raised"
             /\ error' = k.err
             /\ UNCHANGED cipherlocals
        ELSE IF k.length = 0
        THEN /\ cpc' = "raised"
             /\ error' = "ZeroDivisionError"
             /\ UNCHANGED cipherlocals
        ELSE /\ cpc' = "loop"
             /\ error' = "none"
             /\ key' = k
             /\ data' = bytes
             /\ jump_chars' = jump_interval(Len(bytes), k.jump_frequency)
             /\ jump_len' = jump_distance(k.jump_length, k.length)
             /\ till_next_jump' = jump_chars'
             /\ round' = 0
             /\ i' = 0
             /\ nsteps' = 0
             /\ UNCHANGED <<current_key_value, polarity>>

\* Lines 172-192 / 221-241: everything before the loops, on the object a.
Enter(a) ==
    LET bytes == ToByteArray(a)
        k     == decode_key(keyraw)
    IN  IF ~k.ok
        THEN /\ cpc' = "raised"
             /\ error' = k.err
             /\ UNCHANGED cipherlocals
        ELSE IF k.length = 0
        THEN /\ cpc' = "raised"
             /\ error' = "ZeroDivisionError"
             /\ UNCHANGED cipherlocals
        ELSE /\ cpc' = "loop"
             /\ error' = "none"
             /\ key' = k
             /\ data' = bytes
             /\ jump_chars' = jump_interval(Len(bytes), k.jump_frequency)
             /\ jump_len' = jump_distance(k.jump_length, k.length)
             /\ till_next_jump' = jump_chars'
             /\ current_key_value' = 0
             /\ polarity' = FALSE
             /\ round' = 0
             /\ i' = 0
             /\ nsteps' = 0

\* encrypt(data, key) is called on the caller's object.
CallEncrypt ==
    /\ cpc = "idle"
    /\ op' = "encrypt"
    /\ plain' = ToByteArray(arg)
    /\ Enter(arg)
    /\ UNCHANGED <<keyvars, schedvars, filevars, arg, orig, chained, keyraw, result>>

\* decrypt(data, key) is called on the caller's object.
CallDecrypt ==
    /\ cpc = "idle"
    /\ op' = "decrypt"
    /\ Enter(arg)
    /\ UNCHANGED <<keyvars, schedvars, filevars, arg, orig, plain, chained, keyraw,
                   result>>

\* decrypt(encrypt(data, key), key): decrypt is called on encrypt's result.
CallDecryptOnResult ==
    /\ cpc = "returned"
    /\ op = "encrypt"
    /\ op' = "decrypt"
    /\ chained' = TRUE
    /\ arg' = [type |-> "bytes", val |-> result]
    /\ orig' = arg'
    /\ Enter(arg')
    /\ UNCHANGED <<keyvars, schedvars, filevars, plain, keyraw, result>>

\* The inner loop iteration of a cipher that restarts countdown and polarity
\* at the start of every pass.
StepRestartingSchedulePerPass ==
    /\ cpc = "loop"
    /\ round < Rounds
    /\ Len(data) > 0
    /\ IF current_key_value >= Len(key.block)
       THEN /\ cpc' = "raised"
            /\ error' = "IndexError"
            /\ UNCHANGED <<arg, cipherlocals>>
       ELSE LET cs == StepState([data |-> data,
                                 till_next_jump |-> till_next_jump,
                                 current_key_value |-> current_key_value,
                                 polarity |-> polarity],
                                i, op, key, jump_chars, jump_len)
                last == i + 1 = Len(data)
            IN  /\ data' = cs.data
                /\ till_next_jump' = IF last THEN jump_chars ELSE cs.till_next_jump
                /\ current_key_value' = cs.current_key_value
                /\ polarity' = IF last THEN FALSE ELSE cs.polarity
                /\ i' = IF last THEN 0 ELSE i + 1
                /\ round' = IF last THEN round + 1 ELSE round
                /\ nsteps' = nsteps + 1
                /\ arg' = IF arg.type = "bytearray"
                          THEN [arg EXCEPT !.val = cs.data]
                          ELSE arg
                /\ UNCHANGED <<cpc, error, key, jump_chars, jump_len>>
    /\ UNCHANGED <<keyvars, schedvars, filevars, op, orig, plain, chained, keyraw,
                   result>>

\* One iteration of the inner loop (lines 196-213 / 245-262).  A bytearray
\* argument is the very object the loop writes to (line 176-177: `pass`).
Step ==
    /\ cpc = "loop"
    /\ round < Rounds
    /\ Len(data) > 0
    /\ IF current_key_value >= Len(key.block)
       THEN /\ cpc' = "raised"
            /\ error' = "IndexError"
            /\ UNCHANGED <<arg, cipherlocals>>
       ELSE LET cs == StepState([data |-> data,
                                 till_next_jump |-> till_next_jump,
                                 current_key_value |-> current_key_value,
                                 polarity |-> polarity],
                                i, op, key, jump_chars, jump_len)
            IN  /\ data' = cs.data
                /\ till_next_jump' = cs.till_next_jump
                /\ current_key_value' = cs.current_key_value
                /\ polarity' = cs.polarity
                /\ i' = IF i + 1 = Len(data) THEN 0 ELSE i + 1
                /\ round' = IF i + 1 = Len(data) THEN round + 1 ELSE round
                /\ nsteps' = nsteps + 1
                /\ arg' = IF arg.type = "bytearray"
                          THEN [arg EXCEPT !.val = cs.data]
                          ELSE arg
                /\ UNCHANGED <<cpc, error, key, jump_chars, jump_len>>
    /\ UNCHANGED <<keyvars, schedvars, filevars, op, orig, plain, chained, keyraw,
                   result>>

\* Line 214 / 263: return bytes(data), once the ten passes are over.
Return ==
    /\ cpc = "loop"
    /\ round = Rounds \/ Len(data) = 0
    /\ result' = data
    /\ cpc' = "returned"
    /\ UNCHANGED <<keyvars, schedvars, filevars, op, arg, orig, plain, chained,
                   keyraw, cipherlocals, error>>

CipherNext ==
    CallEncrypt \/ CallDecrypt \/ CallDecryptOnResult \/ Step \/ Return

SpecCipher == CipherInit /\ [][CipherNext]_vars

(***************************************************************************)
(* Cipher Engine: properties checked under SpecCipher.                     *)
(***************************************************************************)
\* C1: for every key that decodes and every byte sequence data (the empty
\* one and lengths that are no multiple of the key length or of 16 included)
\* decrypt(encrypt(data, key), key) = data.
C1_RoundTrip ==
    (cpc = "returned" /\ op = "decrypt" /\ chained) => result = plain

\* C1 witness: a 3-byte message under a 4-byte key came back from decrypt,
\* and the ciphertext decrypt was given differs from the message.
C1_Witness ==
    /\ cpc = "returned"
    /\ op = "decrypt"
    /\ chained
    /\ key.length = 4
    /\ Len(plain) = 3
    /\ arg.val # plain
    /\ result = plain

\* C6: with a key that decode_key accepts, encrypt and decrypt complete;
\* the only error a call ends in is decode_key's ValueError.
C6_FailsOnlyOnUndecodableKey ==
    cpc = "raised" => (~decode_key(keyraw).ok /\ error = "ValueError")

\* C7: encrypt and decrypt leave the caller's buffer unchanged for every
\* accepted input type, and the result has the length of the input bytes.
C7_CallerBufferUnchanged ==
    /\ cpc \in {"loop", "returned", "raised"} => arg = orig
    /\ cpc = "returned" => Len(result) = Len(ToByteArray(orig))

\* C14: the output of a call is a function of (data, key, direction) alone.
\* Whatever ran before it (nothing, or an encrypt whose locals are still in
\* place), a call returns what the transform computed from the initial state
\* gives for its data, its key and its direction.
C14_OutputDependsOnInputsOnly ==
    cpc = "returned" =>
        LET fresh == Transform(ToByteArray(orig), keyraw, op)
        IN  fresh.ok /\ result = fresh.out

\* C14 witness: a decrypt that ran after an encrypt returned, the encrypt
\* having ended with the cursor off the start of the key and the polarity set
\* (cursor and polarity are now where the decrypt, too, left them).
C14_Witness ==
    /\ cpc = "returned"
    /\ op = "decrypt"
    /\ chained
    /\ Len(orig.val) = 3
    /\ key.length = 4
    /\ key.block # <<1, 1, 1, 1>>
    /\ current_key_value # 0
    /\ polarity
    /\ result # orig.val

\* C15: in every state of an encrypt or decrypt run with a key of length >= 4
\* in which the key block is about to be indexed, the cursor is in
\* [0, key.length) and the countdown in [1, jump_interval], whatever the
\* jump_length field (0 .. 2^24 - 1).
C15_CursorAndCountdownInRange ==
    (cpc = "loop" /\ round < 10 /\ Len(data) > 0 /\ key.length >= 4) =>
        /\ current_key_value >= 0
        /\ current_key_value < key.length
        /\ current_key_value < Len(key.block)
        /\ till_next_jump >= 1
        /\ till_next_jump <= jump_chars

\* C15 witness: a run under the largest jump_length field, whose jump
\* distance is far beyond the key length, is past a jump with the cursor
\* inside the block and the countdown part-way.
C15_Witness ==
    /\ cpc = "loop"
    /\ round < 10
    /\ key.length = 5
    /\ key.jump_length = 16777215
    /\ jump_len = 3355448
    /\ jump_chars = 3
    /\ nsteps = 4
    /\ current_key_value = 2
    /\ till_next_jump = 2

\* C16: a transform of N bytes takes exactly 10 * N byte steps under one
\* cipher state.  After t - 1 steps (pass boundaries included) the countdown
\* is what remains to the next multiple of jump_interval and the polarity of
\* step t is true iff floor((t - 1) / jump_interval) is odd, in encrypt and in
\* decrypt; the call returns after step 10 * N.
C16_ScheduleRunsAcrossPasses ==
    /\ cpc = "loop" =>
         /\ nsteps = round * Len(data) + i
         /\ nsteps <= 10 * Len(data)
         /\ polarity = (((nsteps \div jump_chars) % 2) = 1)
         /\ till_next_jump = jump_chars - (nsteps % jump_chars)
    /\ cpc = "returned" => nsteps = 10 * Len(result)

\* C16 witness: a decrypt of three bytes with jump_interval 2 stands at the
\* first byte of its second pass, step 4 of 30, with the polarity set by the
\* jump at step 2 and one step left to the jump at step 4.
C16_Witness ==
    /\ cpc = "loop"
    /\ op = "decrypt"
    /\ Len(data) = 3
    /\ jump_chars = 2
    /\ round = 1
    /\ i = 0
    /\ nsteps = 3
    /\ polarity
    /\ till_next_jump = 1

\* C17: the key cursor moves by a fixed rule.  The jump distance of a run is
\* floor(jump_length / key.length) + key.length, never less than key.length;
\* every byte step takes the cursor to (old + 1) mod key.length when it is not
\* a jump step and to (old + 1 + jump_distance) mod key.length when it is.
C17_CursorRule ==
    /\ [](cpc = "loop" =>
            /\ jump_len = (key.jump_length \div key.length) + key.length
            /\ jump_len >= key.length)
    /\ [][(cpc = "loop" /\ cpc' = "loop" /\ nsteps' = nsteps + 1) =>
            current_key_value' =
                IF till_next_jump = 1
                THEN (current_key_value + 1 + jump_len) % key.length
                ELSE (current_key_value + 1) % key.length]_vars

\* C17 witness: under a 4-byte key with jump_length 7 (distance 5) the second
\* step was a jump step and took the cursor from 1 to (1 + 1 + 5) mod 4 = 3.
C17_Witness ==
    /\ cpc = "loop"
    /\ key.length = 4
    /\ key.jump_length = 7
    /\ jump_len = 5
    /\ jump_chars = 2
    /\ nsteps = 2
    /\ current_key_value = 3

(***************************************************************************)
(* Chunked File Codec: encrypt_file and decrypt_file.  A call moves by one *)
(* loop iteration per step; files are byte strings with a read position.   *)
(***************************************************************************)
\* The byte values separator tokens and small files are drawn from.
SepBytes == {Newline, 55, 75}
\* A source of tokens that all hold a line terminator.
SepDrawsAllWithTerminator(n) == { [j \in 1..n |-> Newline] }
\* urandom(n) in encrypt_file: every token of n bytes over SepBytes.
SepDraws(n) == [1..n -> SepBytes]

\* A file of n bytes: 55 55 55 55 75 55 55 55 55 75 ...
PatternFile(n) == [j \in 1..n |-> IF j % 5 = 0 THEN 75 ELSE 55]
\* Files shorter than a chunk: empty, with and without line terminators,
\* with and without bytes a token can collide with.
SmallFiles ==
    { <<>>, <<75, 75, 75, 75>>, <<65, 65, 65, 65>>, <<Newline, 75, Newline>>,
      <<55, 75, Newline, 1, 2>> }
\* The keys a caller passes: an all-zero block, a constant block, a block of
\* mixed bytes with both jump fields set, and a buffer with a wrong header.
ZeroKey == MakeKey(4, 0, 0, <<0, 0, 0, 0>>)
OnesKey == MakeKey(4, 0, 0, <<1, 1, 1, 1>>)
MixedKey == MakeKey(5, 255, 7, CipherBlock(5, <<200, 77>>))
BadHeaderKey == <<254, 0, 4, 0, 0, 0, 0, 1, 1, 1, 1, 0>>
FileKeys == {ZeroKey, OnesKey, MixedKey, BadHeaderKey}
\* A file of three chunks: two full chunks with the same bytes and one byte.
LargeFile == PatternFile(ChunkSize) \o PatternFile(ChunkSize) \o <<75>>
\* The (file, key) pairs a call is made with: every small file under every
\* key, and the large file.
FileCases ==
    (SmallFiles \X FileKeys) \cup { <<LargeFile, MixedKey>> }

FileInit ==
    /\ KeyParked
    /\ CipherParked
    /\ SchedParked
    /\ fpc = "idle"
    /\ \E case \in FileCases :
         /\ plainfile = case[1]
         /\ fkey = case[2]
    /\ roundtrip = FALSE
    /\ infile = plainfile
    /\ inpos = 0
    /\ outfile = <<>>
    /\ seperator = <<>>
    /\ retry = FALSE
    /\ sep_size = 0
    /\ ferror = "none"

\* encrypt_file(input_file, output_file, key) is called: lines 271-274.
CallEncryptFile ==
    /\ fpc = "idle"
    /\ fpc' = "select"
    /\ inpos' = 0
    /\ outfile' = <<>>
    /\ seperator' = <<>>
    /\ retry' = TRUE
    /\ sep_size' = InitialSepSize
    /\ UNCHANGED <<keyvars, schedvars, ciphervars, plainfile, roundtrip, fkey, infile, ferror>>

\* One iteration of `while retry` (lines 276-286).
SelectSeparator ==
    /\ fpc = "select"
    /\ retry
    /\ sep_size < MaxSepSize
    /\ sep_size' = sep_size + 1
    /\ \E sep \in SepDraws(sep_size + 1) :
         /\ seperator' = sep
         /\ IF Contains(sep, <<Newline>>)
            THEN UNCHANGED <<retry, inpos>>
            ELSE LET scan == ScanForSeparator(infile, inpos, sep)
                 IN  /\ inpos' = scan.pos
                     /\ retry' = ~scan.good
    /\ UNCHANGED <<keyvars, schedvars, ciphervars, fpc, plainfile, roundtrip, fkey, infile,
                   outfile, ferror>>

\* Lines 287-288: infile.seek(0); outfile.write(seperator + b"\n").
WriteSeparatorLine ==
    /\ fpc = "select"
    /\ ~retry
    /\ inpos' = 0
    /\ outfile' = outfile \o seperator \o <<Newline>>
    /\ fpc' = "chunks"
    /\ UNCHANGED <<keyvars, schedvars, ciphervars, plainfile, roundtrip, fkey, infile,
                   seperator, retry, sep_size, ferror>>

\* The chunk line without the substitution of its line terminators.
EscapeChunkWithoutReplace(encrypted_chunk, sep) == encrypted_chunk \o <<Newline>>

\* The escaping of line 291.
EscapeChunk(encrypted_chunk, sep) ==
    Replace(encrypted_chunk, <<Newline>>, sep) \o <<Newline>>

\* One iteration of lines 289-291.
EncryptChunk ==
    /\ fpc = "chunks"
    /\ Len(ReadChunk(infile, inpos)) > 0
    /\ LET chunk == ReadChunk(infile, inpos)
           enc   == Transform(chunk, fkey, "encrypt")
       IN  /\ inpos' = inpos + Len(chunk)
           /\ IF enc.ok
              THEN /\ outfile' = outfile \o EscapeChunk(enc.out, seperator)
                   /\ UNCHANGED <<fpc, ferror>>
              ELSE /\ fpc' = "raised"
                   /\ ferror' = enc.err
                   /\ UNCHANGED outfile
    /\ UNCHANGED <<keyvars, schedvars, ciphervars, plainfile, roundtrip, fkey, infile,
                   seperator, retry, sep_size>>

\* Line 289 reads b"": encrypt_file returns.
EncryptFileReturn ==
    /\ fpc = "chunks"
    /\ Len(ReadChunk(infile, inpos)) = 0
    /\ fpc' = "encrypted"
    /\ UNCHANGED <<keyvars, schedvars, ciphervars, plainfile, roundtrip, fkey, infile, inpos,
                   outfile, seperator, retry, sep_size, ferror>>

\* decrypt_file is called on the caller's file.
CallDecryptFile ==
    /\ fpc = "idle"
    /\ fpc' = "sepline"
    /\ UNCHANGED <<keyvars, schedvars, ciphervars, plainfile, roundtrip, fkey, infile, inpos,
                   outfile, seperator, retry, sep_size, ferror>>

\* decrypt_file is called on the file encrypt_file wrote.
CallDecryptFileOnOutput ==
    /\ fpc = "encrypted"
    /\ fpc' = "sepline"
    /\ roundtrip' = TRUE
    /\ infile' = outfile
    /\ inpos' = 0
    /\ outfile' = <<>>
    /\ seperator' = <<>>
    /\ UNCHANGED <<keyvars, schedvars, ciphervars, plainfile, fkey, retry, sep_size, ferror>>

\* Line 300: seperator = infile.readline()[:-1].
ReadSeparatorLine ==
    /\ fpc = "sepline"
    /\ LET line == ReadLine(infile, inpos)
       IN  /\ seperator' = Slice(line, 0, -1)
           /\ inpos' = inpos + Len(line)
    /\ fpc' = "lines"
    /\ UNCHANGED <<keyvars, schedvars, ciphervars, plainfile, roundtrip, fkey, infile, outfile,
                   retry, sep_size, ferror>>

\* The unescaping of line 302.
UnescapeLine(line, sep) == Replace(Slice(line, 0, -1), sep, <<Newline>>)

\* One iteration of lines 301-303.
DecryptLine ==
    /\ fpc = "lines"
    /\ inpos < Len(infile)
    /\ LET line == ReadLine(infile, inpos)
           dec  == Transform(UnescapeLine(line, seperator), fkey, "decrypt")
       IN  /\ inpos' = inpos + Len(line)
           /\ IF dec.ok
              THEN /\ outfile' = outfile \o dec.out
                   /\ UNCHANGED <<fpc, ferror>>
              ELSE /\ fpc' = "raised"
                   /\ ferror' = dec.err
                   /\ UNCHANGED outfile
    /\ UNCHANGED <<keyvars, schedvars, ciphervars, plainfile, roundtrip, fkey, infile,
                   seperator, retry, sep_size>>

\* The file has no further line: decrypt_file returns.
DecryptFileReturn ==
    /\ fpc = "lines"
    /\ inpos >= Len(infile)
    /\ fpc' = "decrypted"
    /\ UNCHANGED <<keyvars, schedvars, ciphervars, plainfile, roundtrip, fkey, infile, inpos,
                   outfile, seperator, retry, sep_size, ferror>>

FileNext ==
    \/ CallEncryptFile
    \/ SelectSeparator
    \/ WriteSeparatorLine
    \/ EncryptChunk
    \/ EncryptFileReturn
    \/ CallDecryptFile
    \/ CallDecryptFileOnOutput
    \/ ReadSeparatorLine
    \/ DecryptLine
    \/ DecryptFileReturn

SpecFile == FileInit /\ [][FileNext]_vars

(***************************************************************************)
(* encrypt_file with a selection loop that may go on for ever.  sep_size   *)
(* is followed up to MaxFairSepSize; from there on every (longer) token    *)
(* the loop would draw is drawn at that length, so no run ends for want of *)
(* token lengths.                                                          *)
(***************************************************************************)
\* One iteration of `while retry` (lines 276-286).
SelectSeparatorUnbounded ==
    /\ fpc = "select"
    /\ retry
    /\ LET size == Min(sep_size + 1, MaxFairSepSize)
       IN  /\ sep_size' = size
           /\ \E sep \in SepDraws(size) :
                /\ seperator' = sep
                /\ IF Contains(sep, <<Newline>>)
                   THEN UNCHANGED <<retry, inpos>>
                   ELSE LET scan == ScanForSeparator(infile, inpos, sep)
                        IN  /\ inpos' = scan.pos
                            /\ retry' = ~scan.good
    /\ UNCHANGED <<keyvars, schedvars, ciphervars, fpc, plainfile, roundtrip, fkey,
                   infile, outfile, ferror>>

\* The iteration that ends the loop: a token without terminator that the
\* scan does not find.
SeparatorAccepted == SelectSeparatorUnbounded /\ ~retry'

FairFileNext ==
    \/ CallEncryptFile
    \/ SelectSeparatorUnbounded
    \/ WriteSeparatorLine
    \/ EncryptChunk
    \/ EncryptFileReturn

\* The random draws are fair: when a token that ends the loop can be drawn
\* again and again, one is drawn at some point.
SpecFileFair ==
    /\ FileInit
    /\ [][FairFileNext]_vars
    /\ SF_vars(SeparatorAccepted)

(***************************************************************************)
(* Chunked File Codec: properties checked under SpecFile.                  *)
(***************************************************************************)
\* The 1024-byte chunks of a file, as encrypt_file reads them from the start.
ChunksOf(file) ==
    { ReadChunk(file, c * ChunkSize) : c \in 0..((Len(file) + ChunkSize - 1) \div ChunkSize - 1) }

\* C2: for every input, every valid key and every separator the selection
\* loop can end up choosing, decrypt_file on the output of encrypt_file
\* reproduces the exact original bytes.
C2_FileRoundTrip ==
    (fpc = "decrypted" /\ roundtrip) => outfile = plainfile

\* C3: when the separator selection finishes, the chosen token holds no line
\* terminator and occurs in no 1024-byte chunk of the input, counted from the
\* start of the input.
C3_SeparatorAbsentFromInput ==
    (fpc = "select" /\ ~retry) =>
        /\ ~Contains(seperator, <<Newline>>)
        /\ \A chunk \in ChunksOf(infile) : ~Contains(chunk, seperator)

\* The lines of a file from position pos on, as iterating over it yields them.
RECURSIVE LinesFrom(_, _)
LinesFrom(file, pos) ==
    IF pos >= Len(file) THEN <<>>
    ELSE LET line == ReadLine(file, pos)
         IN  <<line>> \o LinesFrom(file, pos + Len(line))

\* How many chunks the first n bytes of a file make: ceil(n / 1024).
ChunkCount(n) == (n + ChunkSize - 1) \div ChunkSize

\* C14, the file part: in the output of encrypt_file two chunks with the same
\* bytes have the same chunk line, wherever they stand in the input.
C14_EqualChunksEncryptEqually ==
    fpc = "encrypted" =>
        LET lines == LinesFrom(outfile, 0)
        IN  \A c1, c2 \in 0..(ChunkCount(Len(infile)) - 1) :
              ReadChunk(infile, c1 * ChunkSize) = ReadChunk(infile, c2 * ChunkSize)
                  => lines[c1 + 2] = lines[c2 + 2]

C8_EmptyInputIsReported ==
    ~(fpc = "decrypted" /\ Len(infile) = 0)

====
